---- MODULE Spec2Model ----
(***************************************************************************)
(* The five HTTP handlers of market_data_download (api/download.py,        *)
(* api/fetch_docs.py, api/save_prices.py, api/save_docs.py, api/search.py) *)
(* as a state machine.  An invocation is one do_POST call; its local       *)
(* variables are the per-invocation components of the state, the GitHub    *)
(* repository and the environment are shared.  Every external call (the    *)
(* market-data provider, the GitHub API) is a step of its own whose        *)
(* outcome the environment chooses.                                        *)
(***************************************************************************)
EXTENDS Integers, Sequences, FiniteSets, TLC

VARIABLES
    pc,             \* pc[p]: position of invocation p inside do_POST
    kind,           \* kind[p]: which handler invocation p runs
    req,            \* req[p]: the POST body received
    attempt,        \* attempt[p]: loop variable of `for attempt in range(max_retries)`
    trace,          \* trace[p]: the external calls and sleeps made so far, in order
    status,         \* status[p]: status line sent (0: none yet)
    body,           \* body[p]: what was written to wfile
    df,             \* df[p]: download's local, the rows yf.download returned
    doc_type,       \* doc_type[p]: save_docs' local of that name (Unbound before line 17)
    news_data,      \* news_data[p]: fetch_docs' local list
    research_data,  \* research_data[p]: fetch_docs' local list
    existing_file,  \* existing_file[p]: sha returned by get_contents (0: not bound)
    files,          \* files[path]: sha of the file in org/market-data (0: absent)
    commits,        \* number of commits of the repository so far
    files0,         \* the repository as it was before any invocation started
    GITHUB_TOKEN    \* os.environ['GITHUB_TOKEN'] ("" when unset)

vars == <<pc, kind, req, attempt, trace, status, body, df, doc_type, news_data,
          research_data, existing_file, files, commits, files0, GITHUB_TOKEN>>

Procs == {1, 2}

-----------------------------------------------------------------------------
(* Bounds of the model *)

MaxQueryLen == 3    \* longest raw search query
MaxLimit == 3       \* largest 'limit' a search request carries
MaxNews == 11       \* longest list the provider returns for ticker.news
MaxRecs == 11       \* most rows the provider returns for ticker.recommendations
MaxRows == 2        \* most price rows yf.download returns

(* Program constants *)

max_retries == 3
retry_delay == 5
NewsLimit == 10
TailRows == 10
default_limit == 10
Unbound == "<unbound>"
Today == "2026-11-02"

-----------------------------------------------------------------------------
(* Strings *)

Min(a, b) == IF a < b THEN a ELSE b
Max(a, b) == IF a > b THEN a ELSE b

\* str.strip(): leading and trailing blanks removed
RECURSIVE LStrip(_)
LStrip(s) ==
    IF Len(s) > 0 /\ SubSeq(s, 1, 1) = " " THEN LStrip(SubSeq(s, 2, Len(s))) ELSE s

RECURSIVE RStrip(_)
RStrip(s) ==
    IF Len(s) > 0 /\ SubSeq(s, Len(s), Len(s)) = " "
    THEN RStrip(SubSeq(s, 1, Len(s) - 1)) ELSE s

Strip(s) == RStrip(LStrip(s))

UpperChar(c) ==
    CASE c = "a" -> "A" [] c = "b" -> "B" [] c = "c" -> "C" [] c = "d" -> "D"
      [] c = "e" -> "E" [] c = "f" -> "F" [] c = "g" -> "G" [] c = "h" -> "H"
      [] c = "i" -> "I" [] c = "j" -> "J" [] c = "k" -> "K" [] c = "l" -> "L"
      [] c = "m" -> "M" [] c = "n" -> "N" [] c = "o" -> "O" [] c = "p" -> "P"
      [] c = "q" -> "Q" [] c = "r" -> "R" [] c = "s" -> "S" [] c = "t" -> "T"
      [] c = "u" -> "U" [] c = "v" -> "V" [] c = "w" -> "W" [] c = "x" -> "X"
      [] c = "y" -> "Y" [] c = "z" -> "Z" [] OTHER -> c

\* str.upper()
RECURSIVE Upper(_)
Upper(s) ==
    IF Len(s) = 0 THEN ""
    ELSE UpperChar(SubSeq(s, 1, 1)) \o Upper(SubSeq(s, 2, Len(s)))

\* str.startswith
StartsWith(s, q) == Len(q) <= Len(s) /\ SubSeq(s, 1, Len(q)) = q

\* `q in s` on strings
Contains(s, q) ==
    \E i \in 1..(Len(s) - Len(q) + 1) : SubSeq(s, i, i + Len(q) - 1) = q

-----------------------------------------------------------------------------
(* Events of trace, responses *)

Ev(c, o, w) == [call |-> c, ok |-> o, why |-> w]

Log(p, e) == trace' = [trace EXCEPT ![p] = Append(@, e)]

NoBody == [kind |-> "none"]
ErrBody(msg) == [kind |-> "object", error |-> msg]

\* send_response(st) ... wfile.write(json.dumps(b)), and do_POST returns
Respond(p, st, b) ==
    /\ status' = [status EXCEPT ![p] = st]
    /\ body' = [body EXCEPT ![p] = b]
    /\ pc' = [pc EXCEPT ![p] = "done"]

\* the `except Exception as e:` clause that ends every do_POST
download_except(p, msg) == Respond(p, 400, ErrBody("Download failed: " \o msg))

fetch_docs_except(p, msg) == Respond(p, 400, ErrBody("Failed to fetch docs: " \o msg))

save_prices_except(p, msg) == Respond(p, 500, ErrBody("Failed to save prices: " \o msg))

search_except(p, msg) == Respond(p, 500, ErrBody("Search failed: " \o msg))

\* save_docs formats doc_type into the message after the status line and the
\* headers are out; with doc_type unbound that raises and nothing is written
save_docs_except(p, msg) ==
    IF doc_type[p] = Unbound
    THEN /\ status' = [status EXCEPT ![p] = 500]
         /\ body' = [body EXCEPT ![p] = NoBody]
         /\ pc' = [pc EXCEPT ![p] = "raised"]
    ELSE Respond(p, 500, ErrBody("Failed to save " \o doc_type[p] \o ": " \o msg))

Except(p, msg) ==
    CASE kind[p] = "download" -> download_except(p, msg)
      [] kind[p] = "fetch_docs" -> fetch_docs_except(p, msg)
      [] kind[p] = "save_prices" -> save_prices_except(p, msg)
      [] kind[p] = "save_docs" -> save_docs_except(p, msg)
      [] kind[p] = "search" -> search_except(p, msg)

Goto(p, l) == pc' = [pc EXCEPT ![p] = l] /\ UNCHANGED <<status, body>>

\* AttemptRaised with the bound of the retry test off by one
AttemptRaised_OffByOne(p) ==
    IF attempt[p] < max_retries
    THEN Goto(p, "sleep")
    ELSE Except(p, "exception")

\* AttemptRaised without the re-raise: the code after the loop runs
AttemptRaised_Swallow(p) ==
    IF attempt[p] < max_retries - 1
    THEN Goto(p, "sleep")
    ELSE Goto(p, CASE kind[p] = "download" -> "reshape"
                   [] kind[p] = "fetch_docs" -> "news"
                   [] OTHER -> "get_contents")

\* the except clause of the retry loop: sleep and go round, or re-raise
AttemptRaised(p) ==
    IF attempt[p] < max_retries - 1
    THEN Goto(p, "sleep")
    ELSE Except(p, "exception")

local_vars == <<df, doc_type, news_data, research_data, existing_file>>
repo_vars == <<files, commits>>
env_vars == <<files0, GITHUB_TOKEN>>

\* time.sleep(retry_delay); continue
Sleep(p) ==
    /\ pc[p] = "sleep"
    /\ Log(p, [call |-> "sleep", ok |-> TRUE, why |-> "ok", secs |-> retry_delay])
    /\ attempt' = [attempt EXCEPT ![p] = @ + 1]
    /\ Goto(p, "attempt")
    /\ UNCHANGED <<kind, req, local_vars, repo_vars, env_vars>>

-----------------------------------------------------------------------------
(* Requests *)

BadJson == [json_ok |-> FALSE]

RawTickers == {"", " ", "AAPL", " AAPL "}

Start(p, k, r) ==
    /\ pc[p] = "idle"
    /\ pc' = [pc EXCEPT ![p] = "parse"]
    /\ kind' = [kind EXCEPT ![p] = k]
    /\ req' = [req EXCEPT ![p] = r]
    /\ UNCHANGED <<attempt, trace, status, body, local_vars, repo_vars, env_vars>>

-----------------------------------------------------------------------------
(* api/download.py *)

DownloadRequests ==
    {BadJson} \cup
    [json_ok : {TRUE}, tickers : {<<>>, <<"AAPL">>, <<"AAPL", "MSFT">>},
     start : {"", "2024-01-01"}, end : {"", "2024-01-31"}]

download_start(p) == \E r \in DownloadRequests : Start(p, "download", r)

\* lines 11-20: parse the body, read and check the fields
download_validate(p) ==
    /\ pc[p] = "parse" /\ kind[p] = "download"
    /\ IF ~req[p].json_ok
       THEN Except(p, "json")
       ELSE IF req[p].tickers = <<>> \/ req[p].start = "" \/ req[p].end = ""
       THEN Except(p, "Missing required parameters")
       ELSE Goto(p, "attempt")
    /\ UNCHANGED <<kind, req, attempt, trace, local_vars, repo_vars, env_vars>>

\* lines 27-39: one pass of the retry loop around yf.download
download_attempt(p) ==
    /\ pc[p] = "attempt" /\ kind[p] = "download"
    /\ \/ /\ Log(p, Ev("yf.download", FALSE, "fault"))
          /\ AttemptRaised(p)
          /\ UNCHANGED df
       \/ \E rows \in 0..MaxRows :
          /\ Log(p, Ev("yf.download", TRUE, "ok"))
          /\ df' = [df EXCEPT ![p] = [i \in 1..rows |-> i]]
          /\ Goto(p, "reshape")
    /\ UNCHANGED <<kind, req, attempt, doc_type, news_data, research_data,
                   existing_file, repo_vars, env_vars>>

\* lines 41-89: the empty check, the rows turned into dictionaries, the response.
\* The frame's columns are the provider's: a row lookup may raise (KeyError), and
\* with several tickers the first one may be missing from the column levels.
download_reshape(p) ==
    /\ pc[p] = "reshape" /\ kind[p] = "download"
    /\ IF df[p] = <<>>
       THEN Except(p, "No data found for ticker(s)")
       ELSE \E columns \in {"ok", "keyerror", "no_level"} :
            /\ columns = "no_level" => Len(req[p].tickers) # 1
            /\ IF columns = "keyerror"
               THEN Except(p, "exception")
               ELSE Respond(p, 200,
                        [kind |-> "object",
                         data |-> IF columns = "ok" THEN df[p] ELSE <<>>,
                         ticker |-> req[p].tickers[1],
                         start |-> req[p].start, end |-> req[p].end])
    /\ UNCHANGED <<kind, req, attempt, trace, local_vars, repo_vars, env_vars>>

-----------------------------------------------------------------------------
(* api/fetch_docs.py *)

FetchDocsRequests == {BadJson} \cup [json_ok : {TRUE}, ticker : RawTickers]

fetch_docs_start(p) == \E r \in FetchDocsRequests : Start(p, "fetch_docs", r)

\* lines 10-17: parse the body, strip and check the symbol
fetch_docs_validate(p) ==
    /\ pc[p] = "parse" /\ kind[p] = "fetch_docs"
    /\ IF ~req[p].json_ok
       THEN Except(p, "json")
       ELSE IF Strip(req[p].ticker) = ""
       THEN Except(p, "Ticker symbol is required")
       ELSE Goto(p, "attempt")
    /\ UNCHANGED <<kind, req, attempt, trace, local_vars, repo_vars, env_vars>>

\* lines 24-33: one pass of the retry loop around yf.Ticker
fetch_docs_attempt(p) ==
    /\ pc[p] = "attempt" /\ kind[p] = "fetch_docs"
    /\ \/ /\ Log(p, Ev("yf.Ticker", FALSE, "fault"))
          /\ AttemptRaised(p)
       \/ /\ Log(p, Ev("yf.Ticker", TRUE, "ok"))
          /\ Goto(p, "news")
    /\ UNCHANGED <<kind, req, attempt, local_vars, repo_vars, env_vars>>

EvData(c, o, n, bad) == [call |-> c, ok |-> o, why |-> IF o THEN "ok" ELSE "fault",
                         n |-> n, bad |-> bad]

\* the items a loop over `list` appends before item number `bad` raises (0: none does)
Appended(list, bad) ==
    IF bad = 0 THEN list ELSE SubSeq(list, 1, Min(bad - 1, Len(list)))

\* fetch_docs_news without its own try: a failure reaches the outer except clause
fetch_docs_news_Propagate(p) ==
    /\ pc[p] = "news" /\ kind[p] = "fetch_docs"
    /\ \/ /\ Log(p, EvData("news", FALSE, 0, 0))
          /\ Except(p, "exception")
          /\ UNCHANGED news_data
       \/ \E n \in 0..MaxNews : \E bad \in 0..Min(n, NewsLimit) :
          LET news == [i \in 1..n |-> i] IN
          /\ Log(p, EvData("news", TRUE, n, bad))
          /\ news_data' = [news_data EXCEPT ![p] =
                               Appended(SubSeq(news, 1, Min(NewsLimit, n)), bad)]
          /\ Goto(p, "research")
    /\ UNCHANGED <<kind, req, attempt, df, doc_type, research_data, existing_file,
                   repo_vars, env_vars>>

\* lines 39-51: ticker.news, its first 10 items; any exception is printed and dropped
fetch_docs_news(p) ==
    /\ pc[p] = "news" /\ kind[p] = "fetch_docs"
    /\ \/ /\ Log(p, EvData("news", FALSE, 0, 0))
          /\ UNCHANGED news_data
       \/ \E n \in 0..MaxNews : \E bad \in 0..Min(n, NewsLimit) :
          LET news == [i \in 1..n |-> i] IN
          /\ Log(p, EvData("news", TRUE, n, bad))
          /\ news_data' = [news_data EXCEPT ![p] =
                               Appended(SubSeq(news, 1, Min(NewsLimit, n)), bad)]
    /\ Goto(p, "research")
    /\ UNCHANGED <<kind, req, attempt, df, doc_type, research_data, existing_file,
                   repo_vars, env_vars>>

\* lines 54-81: ticker.recommendations, its last 10 rows; any exception is printed
\* and dropped; then the 200 response
fetch_docs_research(p) ==
    /\ pc[p] = "research" /\ kind[p] = "fetch_docs"
    /\ \/ /\ Log(p, EvData("recommendations", FALSE, 0, 0))
          /\ UNCHANGED research_data
       \/ \E n \in 0..MaxRecs : \E bad \in 0..Min(n, TailRows) :
          LET recommendations == [i \in 1..n |-> i] IN
          /\ Log(p, EvData("recommendations", TRUE, n, bad))
          /\ research_data' = [research_data EXCEPT ![p] =
                 Appended(SubSeq(recommendations, Max(1, n - TailRows + 1), n), bad)]
    /\ Respond(p, 200, [kind |-> "object", news |-> news_data[p],
                        research |-> research_data'[p],
                        ticker |-> Strip(req[p].ticker)])
    /\ UNCHANGED <<kind, req, attempt, df, doc_type, news_data, existing_file,
                   repo_vars, env_vars>>

-----------------------------------------------------------------------------
(* api/save_prices.py and api/save_docs.py *)

\* dateRange is a JSON object that has an 'end' key or not
DateRanges == {[has_end |-> FALSE, end |-> ""], [has_end |-> TRUE, end |-> "2024-01-31"]}

SavePricesRequests ==
    {BadJson} \cup
    [json_ok : {TRUE}, ticker : RawTickers, data : {<<>>, <<"row">>, <<"scalar">>},
     dateRange : DateRanges]

SaveDocsRequests ==
    {BadJson} \cup
    [json_ok : {TRUE}, ticker : RawTickers,
     type : {"", "news", " research ", "prices"}, items : {<<>>, <<"item">>}]

save_prices_start(p) == \E r \in SavePricesRequests : Start(p, "save_prices", r)

save_docs_start(p) == \E r \in SaveDocsRequests : Start(p, "save_docs", r)

\* save_prices.py lines 51-52: file_path = f"data/{ticker}/{end_date}.csv"
save_prices_path(r) ==
    "data/" \o Strip(r.ticker) \o "/"
        \o (IF r.dateRange.has_end THEN r.dateRange.end ELSE Today) \o ".csv"

\* save_docs_path without the doc_type directory
save_docs_path_NoType(r) == Strip(r.ticker) \o "/" \o Today \o ".json"

\* save_docs.py lines 54-55: file_path = f"{doc_type}/{ticker}/{today}.json"
save_docs_path(r) == Strip(r.type) \o "/" \o Strip(r.ticker) \o "/" \o Today \o ".json"

file_path(p) ==
    IF kind[p] = "save_prices" THEN save_prices_path(req[p]) ELSE save_docs_path(req[p])

\* the paths a request that passes validation can name
Paths ==
    {save_prices_path(r) : r \in {x \in SavePricesRequests \ {BadJson} :
                                      Strip(x.ticker) # ""}}
        \cup {save_docs_path(r) : r \in {x \in SaveDocsRequests \ {BadJson} :
                  Strip(x.ticker) # "" /\ Strip(x.type) \in {"news", "research"}}}

\* the files the repository holds before the first request: of the paths a
\* request can name, some exist and some do not
InitialFiles == {"data/AAPL/2024-01-31.csv", "news/AAPL/" \o Today \o ".json"}

\* save_prices_validate without the check of the token
save_prices_validate_NoTokenCheck(p) ==
    /\ pc[p] = "parse" /\ kind[p] = "save_prices"
    /\ IF ~req[p].json_ok
       THEN Except(p, "json")
       ELSE IF Strip(req[p].ticker) = "" \/ req[p].data = <<>>
       THEN Except(p, "Ticker and data are required")
       ELSE Goto(p, "attempt")
    /\ UNCHANGED <<kind, req, attempt, trace, local_vars, repo_vars, env_vars>>

\* save_prices.py lines 13-27
save_prices_validate(p) ==
    /\ pc[p] = "parse" /\ kind[p] = "save_prices"
    /\ IF ~req[p].json_ok
       THEN Except(p, "json")
       ELSE IF Strip(req[p].ticker) = "" \/ req[p].data = <<>>
       THEN Except(p, "Ticker and data are required")
       ELSE IF GITHUB_TOKEN = ""
       THEN Except(p, "GitHub token not configured")
       ELSE Goto(p, "attempt")
    /\ UNCHANGED <<kind, req, attempt, trace, local_vars, repo_vars, env_vars>>

\* save_docs.py lines 12-18: the body parsed, ticker, doc_type and items bound;
\* a body that does not parse raises before doc_type is bound
save_docs_parse(p) ==
    /\ pc[p] = "parse" /\ kind[p] = "save_docs"
    /\ IF ~req[p].json_ok
       THEN Except(p, "json") /\ UNCHANGED doc_type
       ELSE /\ doc_type' = [doc_type EXCEPT ![p] = Strip(req[p].type)]
            /\ Goto(p, "validate")
    /\ UNCHANGED <<kind, req, attempt, trace, df, news_data, research_data,
                   existing_file, repo_vars, env_vars>>

\* save_docs.py lines 20-29
save_docs_validate(p) ==
    /\ pc[p] = "validate" /\ kind[p] = "save_docs"
    /\ IF Strip(req[p].ticker) = "" \/ doc_type[p] = "" \/ req[p].items = <<>>
       THEN Except(p, "Ticker, type, and items are required")
       ELSE IF doc_type[p] \notin {"news", "research"}
       THEN Except(p, "Type must be 'news' or 'research'")
       ELSE IF GITHUB_TOKEN = ""
       THEN Except(p, "GitHub token not configured")
       ELSE Goto(p, "attempt")
    /\ UNCHANGED <<kind, req, attempt, trace, local_vars, repo_vars, env_vars>>

IsSave(p) == kind[p] \in {"save_prices", "save_docs"}

\* save_prices.py lines 46-48: row.get raises for a row that is no JSON object
csv_rows_ok(p) ==
    kind[p] = "save_docs" \/ \A i \in 1..Len(req[p].data) : req[p].data[i] # "scalar"

\* save_prices.py lines 33-53, save_docs.py lines 35-56: one pass of the retry
\* loop around Github(github_token) and gh.get_repo, and after the pass that
\* succeeds the content and the path built
save_attempt(p) ==
    /\ pc[p] = "attempt" /\ IsSave(p)
    /\ \/ /\ Log(p, Ev("get_repo", FALSE, "fault"))
          /\ AttemptRaised(p)
       \/ /\ Log(p, Ev("get_repo", TRUE, "ok"))
          /\ IF csv_rows_ok(p) THEN Goto(p, "get_contents") ELSE Except(p, "exception")
    /\ UNCHANGED <<kind, req, attempt, local_vars, repo_vars, env_vars>>

\* save_get_contents that asks again when the API fails
save_get_contents_Retry(p) ==
    /\ pc[p] = "get_contents" /\ IsSave(p)
    /\ \/ /\ Log(p, Ev("get_contents", FALSE, "fault"))
          /\ Goto(p, "get_contents")
          /\ UNCHANGED existing_file
       \/ /\ files[file_path(p)] = 0
          /\ Log(p, Ev("get_contents", FALSE, "not_found"))
          /\ Goto(p, "create_file")
          /\ UNCHANGED existing_file
       \/ /\ files[file_path(p)] # 0
          /\ Log(p, Ev("get_contents", TRUE, "ok"))
          /\ existing_file' = [existing_file EXCEPT ![p] = files[file_path(p)]]
          /\ Goto(p, "update_file")
    /\ UNCHANGED <<kind, req, attempt, df, doc_type, news_data, research_data,
                   repo_vars, env_vars>>

\* save_prices.py lines 56-58, save_docs.py lines 59-61: repo.get_contents raises
\* when the file is absent (404) or when the API fails; the bare except clause
\* takes either to create_file
save_get_contents(p) ==
    /\ pc[p] = "get_contents" /\ IsSave(p)
    /\ \/ /\ Log(p, Ev("get_contents", FALSE, "fault"))
          /\ Goto(p, "create_file")
          /\ UNCHANGED existing_file
       \/ /\ files[file_path(p)] = 0
          /\ Log(p, Ev("get_contents", FALSE, "not_found"))
          /\ Goto(p, "create_file")
          /\ UNCHANGED existing_file
       \/ /\ files[file_path(p)] # 0
          /\ Log(p, Ev("get_contents", TRUE, "ok"))
          /\ existing_file' = [existing_file EXCEPT ![p] = files[file_path(p)]]
          /\ Goto(p, "update_file")
    /\ UNCHANGED <<kind, req, attempt, df, doc_type, news_data, research_data,
                   repo_vars, env_vars>>

\* the commit a successful update_file or create_file makes, and the 200
\* response (save_prices.py lines 73-85, save_docs.py lines 76-88)
Commit(p) ==
    /\ commits' = commits + 1
    /\ files' = [files EXCEPT ![file_path(p)] = commits + 1]
    /\ Respond(p, 200, [kind |-> "object", sha |-> commits + 1,
                        path |-> file_path(p),
                        githubUrl |-> "https://github.com/org/market-data/blob/main/"
                                          \o file_path(p)])

\* save_prices.py lines 59-65, save_docs.py lines 62-68: repo.update_file with
\* the sha read; GitHub rejects a sha that is not the file's current one (409);
\* the bare except clause takes any failure to create_file
save_update_file(p) ==
    /\ pc[p] = "update_file" /\ IsSave(p)
    /\ \/ /\ Log(p, Ev("update_file", FALSE, "fault"))
          /\ Goto(p, "create_file")
          /\ UNCHANGED repo_vars
       \/ /\ files[file_path(p)] # existing_file[p]
          /\ Log(p, Ev("update_file", FALSE, "conflict"))
          /\ Goto(p, "create_file")
          /\ UNCHANGED repo_vars
       \/ /\ files[file_path(p)] = existing_file[p]
          /\ Log(p, Ev("update_file", TRUE, "ok"))
          /\ Commit(p)
    /\ UNCHANGED <<kind, req, attempt, local_vars, env_vars>>

\* save_prices.py lines 65-71, save_docs.py lines 68-74: repo.create_file, which
\* GitHub rejects for a path that exists (422); a failure reaches the outer
\* except clause
save_create_file(p) ==
    /\ pc[p] = "create_file" /\ IsSave(p)
    /\ \/ /\ Log(p, Ev("create_file", FALSE, "fault"))
          /\ Except(p, "exception")
          /\ UNCHANGED repo_vars
       \/ /\ files[file_path(p)] # 0
          /\ Log(p, Ev("create_file", FALSE, "exists"))
          /\ Except(p, "exception")
          /\ UNCHANGED repo_vars
       \/ /\ files[file_path(p)] = 0
          /\ Log(p, Ev("create_file", TRUE, "ok"))
          /\ Commit(p)
    /\ UNCHANGED <<kind, req, attempt, local_vars, env_vars>>

-----------------------------------------------------------------------------
(* api/search.py *)

\* the catalog of lines 24-97, in the order of the dict literal
all_tickers == <<
    [symbol |-> "AAPL", name |-> "Apple Inc.", type |-> "Equity"],
    [symbol |-> "MSFT", name |-> "Microsoft Corporation", type |-> "Equity"],
    [symbol |-> "GOOGL", name |-> "Alphabet Inc. Class A", type |-> "Equity"],
    [symbol |-> "GOOG", name |-> "Alphabet Inc. Class C", type |-> "Equity"],
    [symbol |-> "AMZN", name |-> "Amazon.com Inc.", type |-> "Equity"],
    [symbol |-> "TSLA", name |-> "Tesla Inc.", type |-> "Equity"],
    [symbol |-> "META", name |-> "Meta Platforms Inc.", type |-> "Equity"],
    [symbol |-> "NVDA", name |-> "NVIDIA Corporation", type |-> "Equity"],
    [symbol |-> "NFLX", name |-> "Netflix Inc.", type |-> "Equity"],
    [symbol |-> "ADBE", name |-> "Adobe Inc.", type |-> "Equity"],
    [symbol |-> "CRM", name |-> "Salesforce Inc.", type |-> "Equity"],
    [symbol |-> "ORCL", name |-> "Oracle Corporation", type |-> "Equity"],
    [symbol |-> "IBM", name |-> "International Business Machines", type |-> "Equity"],
    [symbol |-> "JPM", name |-> "JPMorgan Chase & Co.", type |-> "Equity"],
    [symbol |-> "BAC", name |-> "Bank of America Corp.", type |-> "Equity"],
    [symbol |-> "WFC", name |-> "Wells Fargo & Company", type |-> "Equity"],
    [symbol |-> "GS", name |-> "Goldman Sachs Group Inc.", type |-> "Equity"],
    [symbol |-> "MS", name |-> "Morgan Stanley", type |-> "Equity"],
    [symbol |-> "V", name |-> "Visa Inc.", type |-> "Equity"],
    [symbol |-> "MA", name |-> "Mastercard Inc.", type |-> "Equity"],
    [symbol |-> "PYPL", name |-> "PayPal Holdings Inc.", type |-> "Equity"],
    [symbol |-> "JNJ", name |-> "Johnson & Johnson", type |-> "Equity"],
    [symbol |-> "PFE", name |-> "Pfizer Inc.", type |-> "Equity"],
    [symbol |-> "UNH", name |-> "UnitedHealth Group Inc.", type |-> "Equity"],
    [symbol |-> "MRNA", name |-> "Moderna Inc.", type |-> "Equity"],
    [symbol |-> "ABBV", name |-> "AbbVie Inc.", type |-> "Equity"],
    [symbol |-> "WMT", name |-> "Walmart Inc.", type |-> "Equity"],
    [symbol |-> "HD", name |-> "Home Depot Inc.", type |-> "Equity"],
    [symbol |-> "DIS", name |-> "Walt Disney Company", type |-> "Equity"],
    [symbol |-> "NKE", name |-> "Nike Inc.", type |-> "Equity"],
    [symbol |-> "SBUX", name |-> "Starbucks Corporation", type |-> "Equity"],
    [symbol |-> "MCD", name |-> "McDonald's Corporation", type |-> "Equity"],
    [symbol |-> "KO", name |-> "Coca-Cola Company", type |-> "Equity"],
    [symbol |-> "PEP", name |-> "PepsiCo Inc.", type |-> "Equity"],
    [symbol |-> "XOM", name |-> "Exxon Mobil Corporation", type |-> "Equity"],
    [symbol |-> "CVX", name |-> "Chevron Corporation", type |-> "Equity"],
    [symbol |-> "NEE", name |-> "NextEra Energy Inc.", type |-> "Equity"],
    [symbol |-> "SPY", name |-> "SPDR S&P 500 ETF Trust", type |-> "ETF"],
    [symbol |-> "QQQ", name |-> "Invesco QQQ Trust", type |-> "ETF"],
    [symbol |-> "VTI", name |-> "Vanguard Total Stock Market ETF", type |-> "ETF"],
    [symbol |-> "IWM", name |-> "iShares Russell 2000 ETF", type |-> "ETF"],
    [symbol |-> "EFA", name |-> "iShares MSCI EAFE ETF", type |-> "ETF"],
    [symbol |-> "VEA", name |-> "Vanguard FTSE Developed Markets ETF", type |-> "ETF"],
    [symbol |-> "VWO", name |-> "Vanguard FTSE Emerging Markets ETF", type |-> "ETF"],
    [symbol |-> "GLD", name |-> "SPDR Gold Shares", type |-> "ETF"],
    [symbol |-> "SLV", name |-> "iShares Silver Trust", type |-> "ETF"],
    [symbol |-> "TLT", name |-> "iShares 20+ Year Treasury Bond ETF", type |-> "ETF"],
    [symbol |-> "BTC-USD", name |-> "Bitcoin USD", type |-> "Cryptocurrency"],
    [symbol |-> "ETH-USD", name |-> "Ethereum USD", type |-> "Cryptocurrency"],
    [symbol |-> "ADA-USD", name |-> "Cardano USD", type |-> "Cryptocurrency"],
    [symbol |-> "DOT-USD", name |-> "Polkadot USD", type |-> "Cryptocurrency"],
    [symbol |-> "DOGE-USD", name |-> "Dogecoin USD", type |-> "Cryptocurrency"],
    [symbol |-> "^GSPC", name |-> "S&P 500", type |-> "Index"],
    [symbol |-> "^DJI", name |-> "Dow Jones Industrial Average", type |-> "Index"],
    [symbol |-> "^IXIC", name |-> "NASDAQ Composite", type |-> "Index"],
    [symbol |-> "^RUT", name |-> "Russell 2000", type |-> "Index"],
    [symbol |-> "^VIX", name |-> "CBOE Volatility Index", type |-> "Index"]
>>

Alphabet == {"v", "M", "S", " "}

RECURSIVE Strings(_)
Strings(n) ==
    IF n = 0 THEN {""}
    ELSE LET S == Strings(n - 1) IN S \cup {s \o c : s \in S, c \in Alphabet}

\* 'limit' is absent, an integer, or a JSON value that is no number
Limits ==
    {[tag |-> "missing", val |-> 0], [tag |-> "str", val |-> 0]}
        \cup [tag : {"int"}, val : (0 - 1)..MaxLimit]

SearchRequests ==
    {BadJson} \cup [json_ok : {TRUE}, q : Strings(MaxQueryLen), limit : Limits]

search_start(p) == \E r \in SearchRequests : Start(p, "search", r)

\* info['name'].upper() of every catalog entry
name_upper == [i \in 1..Len(all_tickers) |-> Upper(all_tickers[i].name)]

\* exact_match without lines 101-108: nothing is appended before the loop
exact_match_None(query) == <<>>

\* lines 101-108: the exact match goes first
exact_match(query) ==
    IF \E i \in 1..Len(all_tickers) : all_tickers[i].symbol = query
    THEN <<all_tickers[CHOOSE i \in 1..Len(all_tickers) : all_tickers[i].symbol = query]>>
    ELSE <<>>

\* lines 120-122: the test of one catalog entry
matches(i, query) ==
    \/ Contains(all_tickers[i].symbol, query)
    \/ StartsWith(all_tickers[i].symbol, query)
    \/ Contains(name_upper[i], query)

\* lines 111-127: the loop over the catalog from entry i on
RECURSIVE partial_matches(_, _, _, _)
partial_matches(results, i, query, limit) ==
    IF i > Len(all_tickers) \/ Len(results) >= limit
    THEN results
    ELSE IF \E k \in 1..Len(results) : results[k].symbol = all_tickers[i].symbol
    THEN partial_matches(results, i + 1, query, limit)
    ELSE IF matches(i, query)
    THEN partial_matches(Append(results, all_tickers[i]), i + 1, query, limit)
    ELSE partial_matches(results, i + 1, query, limit)

\* sort_key without the startswith branch
sort_key_NoPrefix(item, query) ==
    IF item.symbol = query THEN <<0, Len(item.symbol)>>
    ELSE <<2, Len(item.symbol)>>

\* lines 130-137
sort_key(item, query) ==
    IF item.symbol = query THEN <<0, Len(item.symbol)>>
    ELSE IF StartsWith(item.symbol, query) THEN <<1, Len(item.symbol)>>
    ELSE <<2, Len(item.symbol)>>

\* tuple comparison of two keys
KeyLess(a, b) == a[1] < b[1] \/ (a[1] = b[1] /\ a[2] < b[2])

\* list.sort(key=sort_key) is stable: x goes after every element whose key is
\* not greater than its own
InsertByKey(sorted, x, query) ==
    LET after == {k \in 1..Len(sorted) :
                      ~KeyLess(sort_key(x, query), sort_key(sorted[k], query))}
        n == IF after = {} THEN 0 ELSE CHOOSE k \in after : \A j \in after : j <= k
    IN SubSeq(sorted, 1, n) \o <<x>> \o SubSeq(sorted, n + 1, Len(sorted))

RECURSIVE sort_results(_, _)
sort_results(results, query) ==
    IF results = <<>> THEN <<>>
    ELSE InsertByKey(sort_results(SubSeq(results, 1, Len(results) - 1), query),
                     results[Len(results)], query)

\* Slice that cuts nothing
Slice_None(results, limit) == results

\* results[:limit], a negative limit counting from the end
Slice(results, limit) ==
    IF limit >= 0 THEN SubSeq(results, 1, Min(limit, Len(results)))
    ELSE SubSeq(results, 1, Max(0, Len(results) + limit))

\* lines 110-140 for an integer limit
search_results(query, limit) ==
    Slice(sort_results(partial_matches(exact_match(query), 1, query, limit), query),
          limit)

\* lines 12-21 and 99-147: the whole of do_POST; a limit that is no number makes
\* `len(results) >= limit` raise in the first pass of the loop
search_handle(p) ==
    /\ pc[p] = "parse" /\ kind[p] = "search"
    /\ IF ~req[p].json_ok
       THEN Except(p, "json")
       ELSE LET query == Upper(Strip(req[p].q))
                limit == IF req[p].limit.tag = "missing" THEN default_limit
                         ELSE req[p].limit.val
            IN IF Len(query) < 1
               THEN Respond(p, 200, [kind |-> "list", list |-> <<>>])
               ELSE IF req[p].limit.tag = "str"
               THEN Except(p, "'>=' not supported")
               ELSE Respond(p, 200, [kind |-> "list",
                                     list |-> search_results(query, limit)])
    /\ UNCHANGED <<kind, req, attempt, trace, local_vars, repo_vars, env_vars>>

-----------------------------------------------------------------------------
(* The specifications *)

Init ==
    /\ pc = [p \in Procs |-> "idle"]
    /\ kind = [p \in Procs |-> "none"]
    /\ req = [p \in Procs |-> BadJson]
    /\ attempt = [p \in Procs |-> 0]
    /\ trace = [p \in Procs |-> <<>>]
    /\ status = [p \in Procs |-> 0]
    /\ body = [p \in Procs |-> NoBody]
    /\ df = [p \in Procs |-> <<>>]
    /\ doc_type = [p \in Procs |-> Unbound]
    /\ news_data = [p \in Procs |-> <<>>]
    /\ research_data = [p \in Procs |-> <<>>]
    /\ existing_file = [p \in Procs |-> 0]
    /\ files = [f \in Paths |-> IF f \in InitialFiles THEN 1 ELSE 0]
    /\ commits = 1
    /\ files0 = files
    /\ GITHUB_TOKEN \in {"", "ghp_token"}

\* one invocation, of any handler
Handle(p) ==
    \/ download_start(p) \/ download_validate(p) \/ download_attempt(p)
    \/ download_reshape(p)
    \/ fetch_docs_start(p) \/ fetch_docs_validate(p) \/ fetch_docs_attempt(p)
    \/ fetch_docs_news(p) \/ fetch_docs_research(p)
    \/ save_prices_start(p) \/ save_prices_validate(p)
    \/ save_docs_start(p) \/ save_docs_parse(p) \/ save_docs_validate(p)
    \/ save_attempt(p) \/ save_get_contents(p) \/ save_update_file(p)
    \/ save_create_file(p)
    \/ search_start(p) \/ search_handle(p)
    \/ Sleep(p)

Next == Handle(1)

Spec == Init /\ [][Next]_vars

\* two concurrent invocations of the handlers that share the repository, each
\* with a request that passes validation
ValidSaveRequests ==
    [kind : {"save_prices"},
     r : {x \in SavePricesRequests \ {BadJson} :
              Strip(x.ticker) # "" /\ x.data = <<"row">>}]
        \cup
    [kind : {"save_docs"},
     r : {x \in SaveDocsRequests \ {BadJson} :
              Strip(x.ticker) # "" /\ x.items # <<>>
                  /\ Strip(x.type) \in {"news", "research"}}]

conc_start(p) == \E v \in ValidSaveRequests : Start(p, v.kind, v.r)

HandleSave(p) ==
    \/ conc_start(p)
    \/ save_prices_validate(p)
    \/ save_docs_parse(p) \/ save_docs_validate(p)
    \/ save_attempt(p) \/ save_get_contents(p) \/ save_update_file(p)
    \/ save_create_file(p)
    \/ Sleep(p)

NextConc == \E p \in Procs : HandleSave(p)

SpecConc == Init /\ [][NextConc]_vars

-----------------------------------------------------------------------------
(* What the claims speak of *)

Finished(p) == pc[p] \in {"done", "raised"}

HasRetryLoop(p) == kind[p] \in {"download", "fetch_docs", "save_prices", "save_docs"}

\* the call the retry loop of p's handler guards
GuardedCall(p) ==
    CASE kind[p] = "download" -> "yf.download"
      [] kind[p] = "fetch_docs" -> "yf.Ticker"
      [] OTHER -> "get_repo"

ErrorStatus(p) == IF kind[p] \in {"download", "fetch_docs"} THEN 400 ELSE 500

Events(p, calls) == SelectSeq(trace[p], LAMBDA e : e.call \in calls)

Count(p, call) == Len(Events(p, {call}))

FailedAttempts(p) ==
    Len(SelectSeq(trace[p], LAMBDA e : e.call = GuardedCall(p) /\ ~e.ok))

IsErrorBody(b) == b.kind = "object" /\ "error" \in DOMAIN b

AllBlank(s) == \A i \in 1..Len(s) : SubSeq(s, i, i) = " "

-----------------------------------------------------------------------------
(* C1: in every handler with a retry loop the guarded call is attempted at
   most 3 times per request, never again after an attempt that succeeded, and
   one sleep separates two consecutive attempts: the attempts and sleeps
   alternate, a sleep follows a failed attempt only, k attempts come with k-1
   sleeps and no sleep follows the third failure. *)
C1_RetryDiscipline ==
    \A p \in Procs : HasRetryLoop(p) =>
        LET R == Events(p, {GuardedCall(p), "sleep"}) IN
        /\ Count(p, GuardedCall(p)) <= 3
        /\ Len(R) <= 5
        /\ \A i \in 1..Len(R) :
              /\ i % 2 = 1 => R[i].call = GuardedCall(p)
              /\ i % 2 = 0 => R[i].call = "sleep" /\ R[i].secs = 5 /\ ~R[i - 1].ok
              /\ (R[i].call = GuardedCall(p) /\ R[i].ok) => i = Len(R)
        /\ (Finished(p) /\ R # <<>>) =>
              Count(p, "sleep") = Count(p, GuardedCall(p)) - 1

C1_Witness ==
    \E p \in Procs :
        /\ Finished(p) /\ HasRetryLoop(p)
        /\ Count(p, GuardedCall(p)) = 3 /\ Count(p, "sleep") = 2
        /\ FailedAttempts(p) = 2

(* C2: when the guarded call raises on all 3 attempts the handler answers with
   a JSON error body, 400 for download and fetch_docs and 500 for save_docs and
   save_prices, never 200, and nothing after the loop runs: no other external
   call is made, nothing is reshaped, the repository is as it was. *)
C2_ExhaustedRetriesPropagate ==
    \A p \in Procs : (HasRetryLoop(p) /\ FailedAttempts(p) = 3) =>
        /\ Finished(p)
        /\ status[p] = ErrorStatus(p) /\ status[p] # 200
        /\ IsErrorBody(body[p])
        /\ \A i \in 1..Len(trace[p]) : trace[p][i].call \in {GuardedCall(p), "sleep"}
        /\ df[p] = <<>> /\ news_data[p] = <<>> /\ research_data[p] = <<>>
        /\ files = files0

C2_Witness ==
    \E p \in Procs :
        /\ kind[p] = "save_docs" /\ FailedAttempts(p) = 3
        /\ Count(p, "sleep") = 2 /\ status[p] = 500

(* C3: in every one of the five handlers a request that ends without a 200
   ends with the handler's fixed error status (400 for download and fetch_docs,
   500 for save_docs, save_prices and search) and a JSON object with an 'error'
   key as its body, also when the failure comes before the request fields are
   read; a body that does not parse is such a failure. *)
C3_FailuresBecomeJsonErrors ==
    \A p \in Procs : Finished(p) =>
        /\ status[p] \in {200, ErrorStatus(p)}
        /\ status[p] # 200 => IsErrorBody(body[p])
        /\ ~req[p].json_ok => status[p] = ErrorStatus(p)

(* C4: save_prices and save_docs update if the file exists and create it
   otherwise: once past the get_contents/update_file step, update_file has been
   called exactly when the file exists at the target path, create_file is
   called only for a path with no file, and never after get_contents
   succeeded. *)
C4_UpdateIffExistsElseCreate ==
    \A p \in Procs : (IsSave(p) /\ Count(p, "get_contents") > 0) =>
        LET existed == files0[file_path(p)] # 0 IN
        /\ pc[p] \in {"create_file", "done"} => (Count(p, "update_file") > 0 <=> existed)
        /\ Count(p, "create_file") > 0 => ~existed
        /\ Count(p, "create_file") > 0 =>
              ~\E i \in 1..Len(trace[p]) :
                  trace[p][i].call = "get_contents" /\ trace[p][i].ok

(* C5: the retry covers the guarded call only: within one request ticker.news,
   ticker.recommendations, get_contents, update_file and create_file are each
   called at most once, so a failure of one of them is never followed by
   another attempt of the same call. *)
C5_NoRetryOutsideLoop ==
    \A p \in Procs :
        \A c \in {"news", "recommendations", "get_contents", "update_file", "create_file"} :
            Count(p, c) <= 1

C5_Witness ==
    \E p \in Procs :
        /\ Finished(p) /\ IsSave(p)
        /\ \E i \in 1..Len(trace[p]) :
              trace[p][i].call = "get_contents" /\ trace[p][i].why = "fault"
        /\ \E i \in 1..Len(trace[p]) :
              trace[p][i].call = "create_file" /\ ~trace[p][i].ok

CatalogIndex(e) == CHOOSE i \in 1..Len(all_tickers) : all_tickers[i].symbol = e.symbol

MatchClass(e, q) ==
    IF e.symbol = q THEN 0 ELSE IF StartsWith(e.symbol, q) THEN 1 ELSE 2

(* C6: the list search returns is ordered by the tie-break rules: the symbol
   equal to the normalized query first, then the symbols that start with the
   query, then the other matches; within a class by non-decreasing symbol
   length, and symbols of equal length in catalog order. *)
C6_SearchOrder ==
    \A p \in Procs : (kind[p] = "search" /\ Finished(p) /\ status[p] = 200) =>
        LET L == body[p].list
            q == Upper(Strip(req[p].q))
        IN \A i, j \in 1..Len(L) : i < j =>
              \/ MatchClass(L[i], q) < MatchClass(L[j], q)
              \/ /\ MatchClass(L[i], q) = MatchClass(L[j], q)
                 /\ \/ Len(L[i].symbol) < Len(L[j].symbol)
                    \/ /\ Len(L[i].symbol) = Len(L[j].symbol)
                       /\ CatalogIndex(L[i]) < CatalogIndex(L[j])

C6_Witness ==
    \E p \in Procs :
        /\ kind[p] = "search" /\ Finished(p) /\ status[p] = 200
        /\ LET L == body[p].list
               q == Upper(Strip(req[p].q))
           IN /\ \A c \in {0, 1, 2} : \E i \in 1..Len(L) : MatchClass(L[i], q) = c
              /\ \E i, j \in 1..Len(L) :
                    /\ i < j /\ MatchClass(L[i], q) = MatchClass(L[j], q)
                    /\ Len(L[i].symbol) = Len(L[j].symbol)

NoFaults(p) == \A i \in 1..Len(trace[p]) : trace[p][i].why # "fault"

\* what identifies the file a save request targets
Target(p) ==
    <<kind[p], Strip(req[p].ticker),
      IF kind[p] = "save_docs" THEN Strip(req[p].type)
      ELSE IF req[p].dateRange.has_end THEN req[p].dateRange.end ELSE Today>>

\* status, commit sha and path of p's response
Response(p) ==
    IF status[p] = 200
    THEN [status |-> 200, sha |-> body[p].sha, path |-> body[p].path]
    ELSE [status |-> status[p]]

\* p's response when its handler runs alone on a repository of c commits
Alone(p, c) ==
    IF GITHUB_TOKEN = "" THEN [status |-> 500]
    ELSE [status |-> 200, sha |-> c + 1, path |-> file_path(p)]

SerialEquivalent ==
    \/ GITHUB_TOKEN = "" /\ \A p \in Procs : Response(p) = Alone(p, 1)
    \/ \E p, q \in Procs :
          p # q /\ Response(p) = Alone(p, 1) /\ Response(q) = Alone(q, 2)

NoStaleUpdate ==
    \A p \in Procs : \A i \in 1..Len(trace[p]) :
        trace[p][i].call = "update_file" => trace[p][i].why # "conflict"

(* C7 as stated: two save requests handled concurrently get, under every
   interleaving of their GitHub steps, the responses they get when handled one
   after the other (the API not failing), also when both target the same path;
   update_file is never issued with a sha that is no longer the file's. *)
C7_InterleavingsSerial ==
    /\ NoStaleUpdate
    /\ (\A p \in Procs : Finished(p) /\ NoFaults(p)) => SerialEquivalent

(* C7 amended: two save requests handled concurrently that target different
   file paths get, under every interleaving, the responses of a serial run,
   and neither issues update_file with a stale sha. *)
C7_DifferentPathsSerial ==
    ((\A p \in Procs : kind[p] # "none") /\ Target(1) # Target(2)) =>
        /\ NoStaleUpdate
        /\ (\A p \in Procs : Finished(p) /\ NoFaults(p)) => SerialEquivalent

C7_Witness ==
    /\ \A p \in Procs : Finished(p) /\ NoFaults(p) /\ status[p] = 200
    /\ Target(1) # Target(2)
    /\ body[1].sha = 3
    /\ Count(1, "update_file") = 1 /\ Count(2, "create_file") = 1

Invalid(p) ==
    \/ ~req[p].json_ok
    \/ /\ kind[p] = "download"
       /\ req[p].tickers = <<>> \/ req[p].start = "" \/ req[p].end = ""
    \/ kind[p] = "fetch_docs" /\ AllBlank(req[p].ticker)
    \/ /\ kind[p] = "save_prices"
       /\ AllBlank(req[p].ticker) \/ req[p].data = <<>> \/ GITHUB_TOKEN = ""
    \/ /\ kind[p] = "save_docs"
       /\ \/ AllBlank(req[p].ticker) \/ req[p].items = <<>> \/ GITHUB_TOKEN = ""
          \/ Strip(req[p].type) \notin {"news", "research"}

(* C8: validation precedes every external effect: download makes no call when
   tickers, start or end is missing or empty, fetch_docs none for an empty or
   blank symbol, save_docs and save_prices none when ticker or payload is
   empty, when the type is neither 'news' nor 'research', or when GITHUB_TOKEN
   is unset. *)
C8_ValidationFirst ==
    \A p \in Procs : (kind[p] # "none" /\ kind[p] # "search" /\ Invalid(p)) =>
        /\ trace[p] = <<>>
        /\ files = files0
        /\ Finished(p) => status[p] = ErrorStatus(p)

C8_Witness ==
    \E p \in Procs :
        /\ Finished(p) /\ kind[p] = "save_prices" /\ req[p].json_ok
        /\ ~AllBlank(req[p].ticker) /\ req[p].data # <<>> /\ GITHUB_TOKEN = ""
        /\ status[p] = 500 /\ trace[p] = <<>>

ExpectedNews(e) ==
    IF ~e.ok THEN <<>>
    ELSE LET k == IF e.bad = 0 THEN Min(10, e.n) ELSE Min(10, e.bad - 1)
         IN [i \in 1..k |-> i]

ExpectedResearch(e) ==
    IF ~e.ok THEN <<>>
    ELSE LET first == IF e.n > 10 THEN e.n - 9 ELSE 1
             k == IF e.bad = 0 THEN e.n - first + 1 ELSE e.bad - 1
         IN [i \in 1..k |-> first + i - 1]

(* C9: in fetch_docs a failure of ticker.news or of ticker.recommendations does
   not fail the request: the answer is 200, a failed section is empty or holds
   the items appended before the failure, each section is what its own call
   gave whatever became of the other, and each holds at most 10 items. *)
C9_DocsFailuresTolerated ==
    \A p \in Procs : (kind[p] = "fetch_docs" /\ Count(p, "news") > 0) =>
        /\ status[p] \in {0, 200}
        /\ news_data[p] = ExpectedNews(Events(p, {"news"})[1])
        /\ Finished(p) =>
              /\ status[p] = 200
              /\ body[p].news = ExpectedNews(Events(p, {"news"})[1])
              /\ body[p].research = ExpectedResearch(Events(p, {"recommendations"})[1])
              /\ Len(body[p].news) <= 10 /\ Len(body[p].research) <= 10

C9_Witness ==
    \E p \in Procs :
        /\ kind[p] = "fetch_docs" /\ Finished(p) /\ status[p] = 200
        /\ ~Events(p, {"news"})[1].ok
        /\ Events(p, {"recommendations"})[1].n > 10
        /\ Events(p, {"recommendations"})[1].bad = 0
        /\ body[p].news = <<>> /\ Len(body[p].research) = 10

EffectiveLimit(r) == IF r.limit.tag = "missing" THEN 10 ELSE r.limit.val

(* C10: for every query and every integer limit >= 0 the list search returns
   has at most limit entries, no symbol twice, and only catalog entries whose
   symbol or upper-cased name contains the normalized query; an empty or blank
   query gets 200 and the empty list. *)
C10_SearchResultBounded ==
    \A p \in Procs : (kind[p] = "search" /\ Finished(p) /\ req[p].json_ok) =>
        LET q == Upper(Strip(req[p].q)) IN
        /\ AllBlank(req[p].q) => status[p] = 200 /\ body[p].list = <<>>
        /\ (req[p].limit.tag # "str" /\ EffectiveLimit(req[p]) >= 0) =>
              LET L == body[p].list IN
              /\ status[p] = 200
              /\ Len(L) <= EffectiveLimit(req[p])
              /\ \A i, j \in 1..Len(L) : i # j => L[i].symbol # L[j].symbol
              /\ \A i \in 1..Len(L) :
                    /\ \E k \in 1..Len(all_tickers) : all_tickers[k] = L[i]
                    /\ Contains(L[i].symbol, q) \/ Contains(Upper(L[i].name), q)

C10_Witness ==
    \E p \in Procs :
        /\ kind[p] = "search" /\ Finished(p) /\ status[p] = 200
        /\ req[p].limit.tag = "int" /\ req[p].limit.val >= 2
        /\ Len(body[p].list) = req[p].limit.val
        /\ body[p].list[1].symbol = Upper(Strip(req[p].q))
        /\ req[p].q # Upper(Strip(req[p].q))

\* the catalog entries that match the normalized query q
AllMatching(q) ==
    {k \in 1..Len(all_tickers) :
        \/ Contains(all_tickers[k].symbol, q)
        \/ Contains(Upper(all_tickers[k].name), q)}

\* e ranks strictly before f by relevance: class first, then the shorter symbol
RanksBefore(e, f, q) ==
    \/ MatchClass(e, q) < MatchClass(f, q)
    \/ MatchClass(e, q) = MatchClass(f, q) /\ Len(e.symbol) < Len(f.symbol)

(* C11: search returns the most relevant matches: for every query and every
   limit >= 1 the list holds the first limit of all the matching catalog
   entries sorted by relevance (exact, then prefix, then other; the shorter
   symbol first): it has as many entries as limit and the matches allow, and
   no matching entry left out ranks strictly before one returned. *)
C11_MostRelevantReturned ==
    \A p \in Procs :
        (/\ kind[p] = "search" /\ Finished(p) /\ status[p] = 200
         /\ req[p].limit.tag # "str" /\ EffectiveLimit(req[p]) >= 1
         /\ ~AllBlank(req[p].q)) =>
            LET L == body[p].list
                q == Upper(Strip(req[p].q))
                returned == {CatalogIndex(L[i]) : i \in 1..Len(L)}
            IN /\ Len(L) = Min(EffectiveLimit(req[p]), Cardinality(AllMatching(q)))
               /\ \A k \in AllMatching(q) \ returned : \A i \in 1..Len(L) :
                     ~RanksBefore(all_tickers[k], L[i], q)

\* the normalized query is a key of the catalog
IsCatalogKey(q) == \E k \in 1..Len(all_tickers) : all_tickers[k].symbol = q

(* C12: if the query, stripped and upper-cased, is a key of the catalog and
   limit >= 1, the first element of the search result is that exact symbol,
   whatever the limit and however many other entries match. *)
C12_ExactMatchFirst ==
    \A p \in Procs :
        (/\ kind[p] = "search" /\ Finished(p)
         /\ req[p].json_ok /\ req[p].limit.tag # "str"
         /\ EffectiveLimit(req[p]) >= 1
         /\ IsCatalogKey(Upper(Strip(req[p].q)))) =>
            /\ status[p] = 200
            /\ body[p].kind = "list"
            /\ Len(body[p].list) >= 1
            /\ body[p].list[1].symbol = Upper(Strip(req[p].q))

\* " ms" with limit 1: MSFT precedes MS in the catalog, yet MS is returned
C12_Witness ==
    \E p \in Procs :
        /\ kind[p] = "search" /\ Finished(p) /\ status[p] = 200
        /\ req[p].json_ok /\ req[p].limit = [tag |-> "int", val |-> 1]
        /\ req[p].q # Upper(Strip(req[p].q))
        /\ IsCatalogKey(Upper(Strip(req[p].q)))
        /\ \E k \in AllMatching(Upper(Strip(req[p].q))) :
              /\ all_tickers[k].symbol # Upper(Strip(req[p].q))
              /\ k < CatalogIndex(body[p].list[1])
        /\ Len(body[p].list) = 1
        /\ body[p].list[1].symbol = Upper(Strip(req[p].q))

====
